---- MODULE Spec2Model ----
\* Model of the netsi-address web component (src/src/netsi-address.ts,
\* second copy of the class, lines 514-876): debounced input, single-flight
\* lookup with AbortController, fuzzy fallback and the suggestion list.
EXTENDS Integers, Naturals, Sequences, FiniteSets, TLC

\* ---------------------------------------------------------------------
\* Program constants and bounds
\* ---------------------------------------------------------------------
Delay == 350
MaxTime == 700
MaxLookups == 2
MaxResults == 2
TickSizes == {100, 350}
Chars == {" ", "a"}
InputValues == {<<>>, <<" ">>, <<"a", " ">>}
NoTimer == -1
EmptyObj == [k \in {} |-> 0]
MaxBurst == 2
MaxSelects == 1
MaxOverlap == 2
MaxDirect == 1

\* ---------------------------------------------------------------------
\* String helpers: String.prototype.trim over the modelled alphabet
\* ---------------------------------------------------------------------
RECURSIVE TrimLeft(_)
TrimLeft(s) == IF s # <<>> /\ Head(s) = " " THEN TrimLeft(Tail(s)) ELSE s

RECURSIVE TrimRight(_)
TrimRight(s) == IF s # <<>> /\ s[Len(s)] = " "
                THEN TrimRight(SubSeq(s, 1, Len(s) - 1)) ELSE s

TrimNone(s) == s

Trim(s) == TrimRight(TrimLeft(s))

VARIABLES
  now,          \* wall clock (ms)
  inputValue,   \* this._inputEl.value
  deadline,     \* debounce: fire time of the pending setTimeout, or NoTimer
  lastInput,    \* time of the last input event (-1 before any)
  useFuzzy,     \* this._config.useFuzzyFallback
  curCtl,       \* this._abortController (lookup id that created it, 0 = null)
  aborted,      \* controllers whose abort() was called
  nLookups,     \* number of lookup() invocations so far
  lk,           \* per lookup invocation: its position in the async function
  visible,      \* _suggestionsEl.classList.contains("visible")
  sugg,         \* rendered <li> items
  hl,           \* this._highlightedIndex
  logged,       \* lookups that reached console.error
  lastRender,   \* which lookup rendered last, and how many had started then
  fires,        \* lookups fired by the debounce timer since the last input
  fireGap,      \* now - lastInput at the last timer fire (-1 before any)
  burst,        \* input events since the last timer fire (capped)
  firedBurst,   \* input events coalesced into the last timer fire
  cancelled,    \* lookups whose call settled with AbortError
  nDirect,      \* direct el.lookup() calls made by the page
  qValue,       \* _buildQueryParameters: this._inputEl.value
  qConfig,      \* _buildQueryParameters: this._config
  qFuzzy,       \* _buildQueryParameters: isFuzzy argument
  qParams,      \* _buildQueryParameters: the URLSearchParams built
  supplied,     \* set config(newConfig): newConfig
  effective,    \* set config(newConfig): this._config afterwards
  pureDone,     \* the pure operation has been applied
  cfgThrew,     \* set config(newConfig) threw (from _initialize)
  mapperKind,   \* the mapper configured for MapperPath: returns or throws
  nSel,         \* number of select(item) calls so far
  lastSel,      \* the latest select call: its serial and item
  selQ,         \* select calls awaiting the detail fetch of their href
  fields,       \* per mapped path: the select serial that last wrote it (0 none)
  lastEvent,    \* the last netsi-address:select event dispatched
  nEvents,      \* number of select events dispatched
  selLog,       \* the last select that ran _populate: its steps in order and
                \* whether it used a fetched record
  selErr,       \* select serials whose detail fetch failed and was logged
  lastUi,       \* the keyboard or mouse event of the last step ("none")
  quiet,        \* a select completed and no input event happened since
  inputEl,      \* _initialize: this._inputEl (an element id, or NoElem)
  styles,       \* the <style id="netsi-address-styles"> is in the document
  nLists,       \* <ul id="netsi-suggestions-list"> elements created
  listenOn,     \* elements carrying the input and keydown listeners
  docListen,    \* the document click listener is attached
  errs,         \* console.error calls made by _initialize
  nCfg,         \* set config calls so far
  lastCfgOk,    \* the last _initialize ran to its end
  elVal,        \* value of each candidate input element
  nTyped,       \* input events typed by the user
  cLookups,     \* lookups that issued a fetch after an input event
  cOpen,        \* the current suggestion list is shown
  listsIn,      \* suggestion lists (by creation number) still in the document
  curList,      \* this._suggestionsEl (creation number, 0 = null)
  winListen,    \* the window resize and scroll listeners are attached
  nDisc,        \* disconnectedCallback calls so far
  cTimer,       \* the component's debounce timer is pending
  cPending,     \* a lookup fetch of the component is in flight (not aborted)
  pTree,        \* _populate: the address record (nested JavaScript values)
  pPath,        \* _populate: the ui key (dot-path) of one mapping
  pTarget,      \* the element its selector matches: input, strong or none
  pMapper,      \* the mapping's mapper: none or fmt
  pDone,        \* the mapping has been applied
  pOut,         \* _getValue(addressData, key): thrown flag and value
  pShown,       \* what the target displays (value of an input, text of
                \* any other element)
  pProp,        \* the target's JavaScript value property
  iState,       \* per instance: new (in the page, never configured), live
                \* (configured, in the page), gone (removed), back (inserted
                \* again, not configured since)
  iCfgs,        \* per instance: successful _initialize runs (its lists)
  iOpen,        \* per instance: its current list has class visible
  tListsIn,     \* <<instance, list number>> of the lists in the document
  tStyle,       \* the element #netsi-address-styles is in the document
  pRect,        \* this._inputEl.getBoundingClientRect(): left, bottom, width
  pScroll,      \* window.scrollX and window.scrollY
  posStyle,     \* this._suggestionsEl.style: left, top, width strings
  posOpen,      \* the list has class visible
  posEv         \* the event of the last step (none, resize, scroll, ...)

selVarsNoUi == <<mapperKind, nSel, lastSel, selQ, fields, lastEvent, nEvents,
                selLog, selErr>>
selVars == <<mapperKind, nSel, lastSel, selQ, fields, lastEvent, nEvents,
            selLog, selErr, lastUi>>
vars == <<now, inputValue, deadline, lastInput, useFuzzy, curCtl, aborted,
          nLookups, lk, visible, sugg, hl, logged, lastRender, fires, fireGap, burst, firedBurst, cancelled,
          nDirect,
          selVars, quiet>>
pureVars == <<qValue, qConfig, qFuzzy, qParams, supplied, effective, pureDone,
              cfgThrew>>
initVars == <<inputEl, styles, nLists, listenOn, docListen, errs, nCfg,
              lastCfgOk, elVal, nTyped, cLookups, cOpen, listsIn, curList,
              winListen, nDisc, cTimer, cPending>>
popVars == <<pTree, pPath, pTarget, pMapper, pDone, pOut, pShown, pProp>>
twoVars == <<iState, iCfgs, iOpen, tListsIn, tStyle>>
posVars == <<pRect, pScroll, posStyle, posOpen, posEv>>
allVars == <<vars, pureVars, initVars, popVars, twoVars, posVars>>

Lookups == 1..MaxLookups

\* Suggestion records of a response: the display text, and whether the
\* nested address carries adgangsadresse.kommune, has an href, and what its
\* adressebetegnelse is relative to the text.
TekstVal == <<"a">>
OtherBetegnelse == <<"a", "a">>
FullSame == [adr |-> TRUE, kommune |-> TRUE, href |-> TRUE, bet |-> TekstVal]
FullOther == [adr |-> TRUE, kommune |-> TRUE, href |-> TRUE, bet |-> OtherBetegnelse]
RefOnly == [adr |-> TRUE, kommune |-> FALSE, href |-> TRUE, bet |-> <<>>]
RecShapes == {FullSame, FullOther, RefOnly}
\* A suggestion without an adresse record.
NoAddr == [adr |-> FALSE, kommune |-> FALSE, href |-> FALSE, bet |-> <<>>]
SelectShapes == RecShapes \cup {NoAddr}
NoItem == [from |-> 0, idx |-> 0, phase |-> "primary", isFuzzy |-> FALSE,
           indicator |-> FALSE, tekst |-> <<>>, rec |-> FullSame]

\* The ui mappings _populate visits after "address", in Object.entries order
\* of NetsiAddress._defaults.ui (a representative subsequence).
MappedPaths == <<"etage", "adgangsadresse.husnr", "adgangsadresse.kommune.navn">>
MappedPathSet == {MappedPaths[i] : i \in 1..Len(MappedPaths)}
MapperPath == "adgangsadresse.husnr"
MapperKinds == {"returns", "throws"}
NoWrite == 0
PCs == {"none", "primaryPending", "primaryReceived",
        "fuzzyPending", "fuzzyReceived", "done"}
NoLookup == [pc |-> "none", sig |-> 0, n |-> 0, q |-> <<>>, shape |-> FullSame]

\* the pure-function variables when no pure operation is under check
PureIdle ==
  /\ qValue = <<>>
  /\ qConfig = EmptyObj
  /\ qFuzzy = FALSE
  /\ qParams = EmptyObj
  /\ supplied = EmptyObj
  /\ effective = EmptyObj
  /\ pureDone = FALSE
  /\ cfgThrew = FALSE

\* Candidate input elements of the page: #address and #alt exist.
Elems == {"E1", "E2"}
NoElem == "none"

\* ---------------------------------------------------------------------
\* JavaScript values of configuration entries, and String(v)
\* ---------------------------------------------------------------------
JsVal(t, str, num, bool) == [t |-> t, s |-> str, n |-> num, b |-> bool]
StrVal(str) == JsVal("string", str, 0, FALSE)
NumVal(num) == JsVal("number", <<>>, num, FALSE)
BoolVal(bool) == JsVal("boolean", <<>>, 0, bool)
UndefVal == JsVal("undefined", <<>>, 0, FALSE)
ObjVal == JsVal("object", <<>>, 0, FALSE)
NullVal == JsVal("null", <<>>, 0, FALSE)

TrueStr == <<"t", "r", "u", "e">>
FalseStr == <<"f", "a", "l", "s", "e">>
DigitChar(d) == <<"0", "1", "2", "3", "4", "5", "6", "7", "8", "9">>[d + 1]

RECURSIVE NumToStr(_)
NumToStr(num) == IF num < 10 THEN <<DigitChar(num)>>
                 ELSE NumToStr(num \div 10) \o <<DigitChar(num % 10)>>

\* String(v)
ToStr(v) ==
  CASE v.t = "string"    -> v.s
    [] v.t = "number"    -> NumToStr(v.n)
    [] v.t = "boolean"   -> IF v.b THEN TrueStr ELSE FalseStr
    [] v.t = "undefined" -> <<"u", "n", "d", "e", "f", "i", "n", "e", "d">>
    [] v.t = "null"      -> <<"n", "u", "l", "l">>
    [] OTHER             -> <<"[", "o", "b", "j", "e", "c", "t", " ",
                              "O", "b", "j", "e", "c", "t", "]">>

\* JavaScript truthiness
Truthy(v) ==
  CASE v.t = "string"  -> v.s # <<>>
    [] v.t = "number"  -> v.n # 0
    [] v.t = "boolean" -> v.b
    [] v.t = "object"  -> TRUE
    [] OTHER           -> FALSE

PopIdle ==
  /\ pTree = [n \in {} |-> UndefVal]
  /\ pPath = <<>>
  /\ pTarget = "none"
  /\ pMapper = "none"
  /\ pDone = FALSE
  /\ pOut = [thrown |-> FALSE, val |-> UndefVal]
  /\ pShown = <<>>
  /\ pProp = UndefVal

CfgIdle ==
  /\ inputEl = NoElem
  /\ styles = FALSE
  /\ nLists = 0
  /\ listenOn = {}
  /\ docListen = FALSE
  /\ errs = 0
  /\ nCfg = 0
  /\ lastCfgOk = FALSE
  /\ elVal = [e \in Elems |-> ""]
  /\ nTyped = 0
  /\ cLookups = 0
  /\ cOpen = FALSE
  /\ listsIn = {}
  /\ curList = 0
  /\ winListen = FALSE
  /\ nDisc = 0
  /\ cTimer = FALSE
  /\ cPending = FALSE

Instances == {1, 2}

TwoIdle ==
  /\ iState = [i \in Instances |-> "new"]
  /\ iCfgs = [i \in Instances |-> 0]
  /\ iOpen = [i \in Instances |-> FALSE]
  /\ tListsIn = {}
  /\ tStyle = FALSE

NoStyle == [left |-> <<>>, top |-> <<>>, width |-> <<>>]

PosIdle ==
  /\ pRect = [left |-> 0, bottom |-> 0, width |-> 0]
  /\ pScroll = [x |-> 0, y |-> 0]
  /\ posStyle = NoStyle
  /\ posOpen = FALSE
  /\ posEv = "none"

InitIdle == CfgIdle /\ PopIdle /\ TwoIdle /\ PosIdle

\* new CustomEvent("netsi-address:select", { detail: { address }, bubbles:
\* true, composed: true }): cancelable is not given and defaults to false.
SelectEventName == "netsi-address:select"
SelectEventInit == [bubbles |-> TRUE, composed |-> TRUE, cancelable |-> FALSE]
NoEvent == [by |-> 0, tekst |-> <<>>, rec |-> FullSame, fetched |-> FALSE,
            name |-> "none", target |-> "none",
            init |-> [bubbles |-> FALSE, composed |-> FALSE, cancelable |-> FALSE],
            detail |-> [address |-> FullSame]]

MainInitBase ==
  /\ now = 0
  /\ inputValue = <<>>
  /\ deadline = NoTimer
  /\ lastInput = -1
  /\ useFuzzy \in BOOLEAN
  /\ curCtl = 0
  /\ aborted = {}
  /\ nLookups = 0
  /\ lk = [l \in Lookups |-> NoLookup]
  /\ visible = FALSE
  /\ sugg = <<>>
  /\ hl = -1
  /\ logged = {}
  /\ lastRender = [by |-> 0, latest |-> 0]
  /\ fires = 0
  /\ fireGap = -1
  /\ burst = 0
  /\ firedBurst = 0
  /\ cancelled = {}
  /\ nDirect = 0
  /\ nSel = 0
  /\ lastSel = [serial |-> 0, item |-> NoItem]
  /\ selQ = <<>>
  /\ fields = [p \in MappedPathSet |-> NoWrite]
  /\ lastEvent = NoEvent
  /\ quiet = FALSE
  /\ nEvents = 0
  /\ selLog = [by |-> 0, fetched |-> FALSE, ref |-> FullSame, steps |-> <<>>]
  /\ selErr = {}
  /\ lastUi = "none"

MainInit == MainInitBase /\ mapperKind = "returns"

Init == MainInit /\ PureIdle /\ InitIdle


\* ---------------------------------------------------------------------
\* _renderSuggestions(suggestions): clear, reset highlight, hide if empty,
\* otherwise one <li> per item (with the "(Mente du?)" span if isFuzzy)
\* and show.
\* ---------------------------------------------------------------------
RenderRows(items) ==
  [i \in 1..Len(items) |-> [from |-> items[i].from, idx |-> items[i].idx,
                            phase |-> items[i].phase,
                            isFuzzy |-> items[i].isFuzzy,
                            indicator |-> items[i].isFuzzy,
                            tekst |-> items[i].tekst, rec |-> items[i].rec]]

RenderSuggestionsKeepHl(items, by, started) ==
  /\ sugg' = RenderRows(items)
  /\ hl' = hl
  /\ visible' = (Len(items) > 0)
  /\ lastRender' = [by |-> by, latest |-> started]

RenderSuggestions(items, by, started) ==
  /\ sugg' = RenderRows(items)
  /\ hl' = -1
  /\ visible' = (Len(items) > 0)
  /\ lastRender' = [by |-> by, latest |-> started]

\* response.json() of a successful call: k suggestion records; the API's
\* records carry no isFuzzy field.
Response(l, ph, k, sh) ==
  [i \in 1..k |-> [from |-> l, idx |-> i, phase |-> ph, isFuzzy |-> FALSE,
                   tekst |-> TekstVal, rec |-> sh]]

TagFuzzyNone(items) == items

\* data.forEach((item) => (item.isFuzzy = true))
TagFuzzy(items) == [i \in DOMAIN items |-> [items[i] EXCEPT !.isFuzzy = TRUE]]

\* the catch block of lookup(): console.error unless error.name is AbortError
LogsAll(errName) == TRUE

Logs(errName) == errName # "AbortError"

\* data.length === 0 && this._config.useFuzzyFallback
FuzzyNeededNoFlag(k) == k = 0

FuzzyNeeded(k) == k = 0 /\ useFuzzy

\* the debounce timer callback is due
TimerDueEarly == deadline # NoTimer /\ now >= deadline - 100

TimerDue == deadline # NoTimer /\ now >= deadline

\* ---------------------------------------------------------------------
\* Actions
\* ---------------------------------------------------------------------

\* An "input" event: the user edits the field; the debounced listener runs
\* clearTimeout(timeoutId); timeoutId = setTimeout(lookup, 350).
\* After disconnectedCallback the listener is gone: the edit only changes the
\* field's value (a timer still pending reads it when it fires).
Input(v) ==
  /\ inputValue' = v
  /\ IF nDisc = 0
     THEN /\ deadline' = now + Delay
          /\ lastInput' = now
          /\ fires' = 0
          /\ burst' = IF burst < MaxBurst THEN burst + 1 ELSE burst
          /\ quiet' = FALSE
     ELSE UNCHANGED <<deadline, lastInput, fires, burst, quiet>>
  /\ UNCHANGED pureVars
  /\ UNCHANGED initVars
  /\ UNCHANGED popVars
  /\ UNCHANGED posVars
  /\ UNCHANGED twoVars
  /\ UNCHANGED selVarsNoUi
  /\ lastUi' = "none"
  /\ UNCHANGED <<now, useFuzzy, curCtl, aborted, nLookups, lk, visible, sugg,
                 hl, logged, lastRender, fireGap, firedBurst, cancelled, nDirect>>

Tick(d) ==
  /\ now + d <= MaxTime
  /\ now' = now + d
  /\ UNCHANGED pureVars
  /\ UNCHANGED initVars
  /\ UNCHANGED popVars
  /\ UNCHANGED posVars
  /\ UNCHANGED twoVars
  /\ UNCHANGED selVarsNoUi
  /\ UNCHANGED quiet
  /\ lastUi' = "none"
  /\ UNCHANGED <<inputValue, deadline, lastInput, useFuzzy, curCtl, aborted,
                 nLookups, lk, visible, sugg, hl, logged, lastRender, fires,
                 fireGap, burst, firedBurst, cancelled, nDirect>>

\* lookup() up to its first await:
\*   this._abortController?.abort(); this._abortController = new AbortController();
\*   if (!query) { this._renderSuggestions([]); return; }
\*   data = await this._fetchData(this._buildQueryParameters(false))
LookupStart ==
  /\ nLookups < MaxLookups
  /\ LET l == nLookups + 1
         q == Trim(inputValue)
     IN /\ nLookups' = l
        /\ aborted' = IF curCtl # 0 THEN aborted \cup {curCtl} ELSE aborted
        /\ curCtl' = l
        /\ IF q = <<>>
           THEN /\ lk' = [lk EXCEPT ![l] = [pc |-> "done", sig |-> l, n |-> 0, q |-> q, shape |-> FullSame]]
                /\ RenderSuggestions(<<>>, l, l)
           ELSE /\ lk' = [lk EXCEPT ![l] = [pc |-> "primaryPending", sig |-> l, n |-> 0, q |-> q, shape |-> FullSame]]
                /\ UNCHANGED <<visible, sugg, hl, lastRender>>
  /\ UNCHANGED pureVars
  /\ UNCHANGED initVars
  /\ UNCHANGED popVars
  /\ UNCHANGED posVars
  /\ UNCHANGED twoVars
  /\ UNCHANGED selVarsNoUi
  /\ UNCHANGED quiet
  /\ lastUi' = "none"
  /\ UNCHANGED <<now, inputValue, lastInput, useFuzzy, logged, cancelled>>

\* The debounce timer fires: setTimeout(() => func.apply(this, args)) runs
\* lookup().
TimerFire ==
  /\ TimerDue
  /\ deadline' = NoTimer
  /\ fires' = fires + 1
  /\ fireGap' = now - lastInput
  /\ burst' = 0
  /\ firedBurst' = burst
  /\ UNCHANGED nDirect
  /\ LookupStart

\* The page calls the public el.lookup() itself; a pending debounce timer
\* stays pending.
DirectLookup ==
  /\ nDirect < MaxDirect
  /\ nDirect' = nDirect + 1
  /\ LookupStart
  /\ UNCHANGED <<deadline, fires, fireGap, burst, firedBurst>>

Pending(l) == lk[l].pc \in {"primaryPending", "fuzzyPending"}
PhaseOf(l) == IF lk[l].pc \in {"primaryPending", "primaryReceived"}
              THEN "primary" ELSE "fuzzy"

\* The network completes an un-aborted call with an ok response whose body
\* is fully read: from now on abort() no longer affects it; the resolution
\* of response.json() is a queued task.
Receive(l, k, sh) ==
  /\ Pending(l)
  /\ lk[l].sig \notin aborted
  /\ k = 0 => sh = FullSame
  /\ lk' = [lk EXCEPT ![l].pc = IF @ = "primaryPending" THEN "primaryReceived"
                                ELSE "fuzzyReceived",
                      ![l].n = k, ![l].shape = sh]
  /\ UNCHANGED pureVars
  /\ UNCHANGED initVars
  /\ UNCHANGED popVars
  /\ UNCHANGED posVars
  /\ UNCHANGED twoVars
  /\ UNCHANGED selVarsNoUi
  /\ UNCHANGED quiet
  /\ lastUi' = "none"
  /\ UNCHANGED <<now, inputValue, deadline, lastInput, useFuzzy, curCtl,
                 aborted, nLookups, visible, sugg, hl, logged, lastRender,
                 fires, fireGap, burst, firedBurst, cancelled, nDirect>>

\* Non-2xx status (throw new Error) or a transport failure of an un-aborted
\* call: caught in lookup(), logged, nothing else.
Fail(l) ==
  /\ Pending(l)
  /\ lk[l].sig \notin aborted
  /\ lk' = [lk EXCEPT ![l].pc = "done"]
  /\ logged' = IF Logs("Error") THEN logged \cup {l} ELSE logged
  /\ UNCHANGED pureVars
  /\ UNCHANGED initVars
  /\ UNCHANGED popVars
  /\ UNCHANGED posVars
  /\ UNCHANGED twoVars
  /\ UNCHANGED selVarsNoUi
  /\ UNCHANGED quiet
  /\ lastUi' = "none"
  /\ UNCHANGED <<now, inputValue, deadline, lastInput, useFuzzy, curCtl,
                 aborted, nLookups, visible, sugg, hl, lastRender, fires,
                 fireGap, burst, firedBurst, cancelled, nDirect>>

\* A call whose signal was aborted while pending settles with AbortError.
AbortSettle(l) ==
  /\ Pending(l)
  /\ lk[l].sig \in aborted
  /\ lk' = [lk EXCEPT ![l].pc = "done"]
  /\ logged' = IF Logs("AbortError") THEN logged \cup {l} ELSE logged
  /\ cancelled' = cancelled \cup {l}
  /\ UNCHANGED pureVars
  /\ UNCHANGED initVars
  /\ UNCHANGED popVars
  /\ UNCHANGED posVars
  /\ UNCHANGED twoVars
  /\ UNCHANGED selVarsNoUi
  /\ UNCHANGED quiet
  /\ lastUi' = "none"
  /\ UNCHANGED <<now, inputValue, deadline, lastInput, useFuzzy, curCtl,
                 aborted, nLookups, visible, sugg, hl, lastRender, fires,
                 fireGap, burst, firedBurst, nDirect>>

\* The continuation of lookup() after `data = await this._fetchData(...)`.
\* Primary with 0 results and the flag on: issue the fuzzy call; its signal
\* is read from this._abortController at that moment (_fetchData line 777).
\* Otherwise tag (fuzzy phase) and render.
Deliver(l) ==
  /\ lk[l].pc \in {"primaryReceived", "fuzzyReceived"}
  /\ LET k == lk[l].n IN
     IF lk[l].pc = "primaryReceived" /\ FuzzyNeeded(k)
     THEN /\ lk' = [lk EXCEPT ![l].pc = "fuzzyPending", ![l].sig = curCtl,
                              ![l].n = 0]
          /\ UNCHANGED <<visible, sugg, hl, lastRender>>
     ELSE /\ lk' = [lk EXCEPT ![l].pc = "done"]
          /\ RenderSuggestions(
               IF lk[l].pc = "fuzzyReceived" /\ k > 0
               THEN TagFuzzy(Response(l, "fuzzy", k, lk[l].shape))
               ELSE Response(l, PhaseOf(l), k, lk[l].shape), l, nLookups)
  /\ UNCHANGED pureVars
  /\ UNCHANGED initVars
  /\ UNCHANGED popVars
  /\ UNCHANGED posVars
  /\ UNCHANGED twoVars
  /\ UNCHANGED selVarsNoUi
  /\ UNCHANGED quiet
  /\ lastUi' = "none"
  /\ UNCHANGED <<now, inputValue, deadline, lastInput, useFuzzy, curCtl,
                 aborted, nLookups, logged, fires, fireGap, burst, firedBurst,
                 cancelled, nDirect>>

\* ---------------------------------------------------------------------
\* Selection: select(item), _populate(addressData)
\* ---------------------------------------------------------------------
LookupVarsNoUi == <<now, deadline, lastInput, useFuzzy, curCtl, aborted,
                    nLookups, lk, sugg, logged, lastRender, fires, fireGap,
                    burst, firedBurst, cancelled, nDirect>>

PositionOf(p) == CHOOSE i \in 1..Len(MappedPaths) : MappedPaths[i] = p

\* mapper(rawValue, addressData) of MapperPath throws
MapperThrows == mapperKind = "throws"

\* _populate: the mappings before the throwing one are written; the throw
\* propagates out of _populate (there is no try/catch around the mapper)
PopulateStop == IF MapperThrows THEN PositionOf(MapperPath)
                ELSE Len(MappedPaths) + 1

PopulatedFields(s) ==
  [p \in MappedPathSet |-> IF PositionOf(p) < PopulateStop THEN s ELSE fields[p]]

NeedsDetailNever(rec) == FALSE

\* !addressData.adgangsadresse?.kommune && addressData.href
NeedsDetail(rec) == ~rec.kommune /\ rec.href

\* The synchronous tail of select(): this._populate(addressData) (primary
\* field := adressebetegnelse, then the mappings), this._hideSuggestions(),
\* this.dispatchEvent(selectEvent). A throwing mapper rejects select().
SelectTail(s, item, rec, fetched) ==
  LET pre == IF fetched THEN <<"fetch">> ELSE <<>> IN
  /\ inputValue' = rec.bet
  /\ fields' = PopulatedFields(s)
  /\ IF MapperThrows
     THEN /\ selLog' = [by |-> s, fetched |-> fetched, ref |-> item.rec,
                          steps |-> pre \o <<"primary", "fields">>]
          /\ UNCHANGED <<visible, lastEvent, nEvents, quiet>>
     ELSE /\ selLog' = [by |-> s, fetched |-> fetched, ref |-> item.rec,
                          steps |-> pre \o <<"primary", "fields", "close", "emit">>]
          /\ visible' = FALSE
          /\ lastEvent' = [by |-> s, tekst |-> item.tekst, rec |-> rec,
                           fetched |-> fetched, name |-> SelectEventName,
                           target |-> "host", init |-> SelectEventInit,
                           detail |-> [address |-> rec]]
          /\ nEvents' = nEvents + 1
          /\ quiet' = TRUE

SelUnchanged == UNCHANGED <<nSel, lastSel, selQ, inputValue, fields, selLog,
                            lastEvent, nEvents, quiet>>

\* select(item) past its item?.adresse check, up to its first await (or to
\* its end when no fetch)
SelectBodyCap(item, cap) ==
  /\ nSel < cap
  /\ nSel' = nSel + 1
  /\ lastSel' = [serial |-> nSel + 1, item |-> item]
  /\ IF NeedsDetail(item.rec)
     THEN /\ selQ' = Append(selQ, [serial |-> nSel + 1, item |-> item])
          /\ UNCHANGED <<inputValue, fields, selLog, visible, lastEvent, nEvents,
                         quiet>>
     ELSE /\ SelectTail(nSel + 1, item, item.rec, FALSE)
          /\ UNCHANGED selQ

SelectBody(item) == SelectBodyCap(item, MaxSelects)

StartSelectNoGuard(item) == SelectBody(item)

\* select(item): if (!item?.adresse) return;
StartSelect(item) ==
  IF item.rec.adr THEN SelectBody(item) ELSE SelUnchanged /\ UNCHANGED visible

RemoveAt(sq, j) == [i \in 1..Len(sq) - 1 |-> IF i < j THEN sq[i] ELSE sq[i + 1]]

\* fetch(addressData.href) and response.json() succeed
SelFetchOk(j, b) ==
  /\ j \in 1..Len(selQ)
  /\ LET e == selQ[j]
         rec == [adr |-> TRUE, kommune |-> TRUE, href |-> TRUE, bet |-> b]
     IN /\ selQ' = RemoveAt(selQ, j)
        /\ SelectTail(e.serial, e.item, rec, TRUE)
  /\ lastUi' = "none"
  /\ UNCHANGED <<hl, mapperKind, nSel, lastSel, selErr>>
  /\ UNCHANGED pureVars
  /\ UNCHANGED initVars
  /\ UNCHANGED popVars
  /\ UNCHANGED posVars
  /\ UNCHANGED twoVars
  /\ UNCHANGED LookupVarsNoUi

\* the detail fetch fails (non-ok or transport): console.error; return
SelFetchFail(j) ==
  /\ j \in 1..Len(selQ)
  /\ selQ' = RemoveAt(selQ, j)
  /\ selErr' = selErr \cup {selQ[j].serial}
  /\ UNCHANGED <<inputValue, visible, hl, mapperKind, nSel, lastSel, fields,
                 lastEvent, nEvents, selLog, quiet>>
  /\ lastUi' = "none"
  /\ UNCHANGED pureVars
  /\ UNCHANGED initVars
  /\ UNCHANGED popVars
  /\ UNCHANGED posVars
  /\ UNCHANGED twoVars
  /\ UNCHANGED LookupVarsNoUi

\* ---------------------------------------------------------------------
\* Keyboard (_handleKeydown) and mouse (li click, _handleClickOutside)
\* ---------------------------------------------------------------------
UiEvent(name) == lastUi' = name

\* _suggestionsEl.classList.contains("visible") and items.length > 0
KeyOpen == visible /\ Len(sugg) > 0

HlDownNoWrap(h, n) == h + 1

\* (this._highlightedIndex + 1) % items.length
HlDown(h, n) == (h + 1) % n

HlUpNoWrap(h, n) == IF h > 0 THEN h - 1 ELSE 0

\* (this._highlightedIndex - 1 + items.length) % items.length
HlUp(h, n) == (h - 1 + n) % n

EnterIndexFirst(h) == 1

\* items[this._highlightedIndex] as a 1-based position in sugg
EnterIndex(h) == h + 1

KeyArrowDown ==
  /\ KeyOpen
  /\ hl' = HlDown(hl, Len(sugg))
  /\ UiEvent("ArrowDown")
  /\ SelUnchanged
  /\ UNCHANGED <<visible, mapperKind, selErr>>
  /\ UNCHANGED pureVars
  /\ UNCHANGED initVars
  /\ UNCHANGED popVars
  /\ UNCHANGED posVars
  /\ UNCHANGED twoVars
  /\ UNCHANGED LookupVarsNoUi

KeyArrowUp ==
  /\ KeyOpen
  /\ hl' = HlUp(hl, Len(sugg))
  /\ UiEvent("ArrowUp")
  /\ SelUnchanged
  /\ UNCHANGED <<visible, mapperKind, selErr>>
  /\ UNCHANGED pureVars
  /\ UNCHANGED initVars
  /\ UNCHANGED popVars
  /\ UNCHANGED posVars
  /\ UNCHANGED twoVars
  /\ UNCHANGED LookupVarsNoUi

\* Enter: if (this._highlightedIndex > -1) items[...].click(), which runs
\* the li's click listener this.select(item); the click then bubbles to
\* document, where _handleClickOutside sees a target inside the list.
KeyEnter ==
  /\ KeyOpen
  /\ UiEvent("Enter")
  /\ IF hl > -1 THEN StartSelect(sugg[EnterIndex(hl)]) ELSE SelUnchanged
  /\ hl = -1 => UNCHANGED visible
  /\ UNCHANGED <<hl, mapperKind, selErr>>
  /\ UNCHANGED pureVars
  /\ UNCHANGED initVars
  /\ UNCHANGED popVars
  /\ UNCHANGED posVars
  /\ UNCHANGED twoVars
  /\ UNCHANGED LookupVarsNoUi

KeyEscape ==
  /\ KeyOpen
  /\ visible' = FALSE
  /\ UiEvent("Escape")
  /\ SelUnchanged
  /\ UNCHANGED <<hl, mapperKind, selErr>>
  /\ UNCHANGED pureVars
  /\ UNCHANGED initVars
  /\ UNCHANGED popVars
  /\ UNCHANGED posVars
  /\ UNCHANGED twoVars
  /\ UNCHANGED LookupVarsNoUi

\* any key while the list is hidden or empty: the handler returns at once
KeyIgnored(key) ==
  /\ ~KeyOpen
  /\ UiEvent(key)
  /\ SelUnchanged
  /\ UNCHANGED <<visible, hl, mapperKind, selErr>>
  /\ UNCHANGED pureVars
  /\ UNCHANGED initVars
  /\ UNCHANGED popVars
  /\ UNCHANGED posVars
  /\ UNCHANGED twoVars
  /\ UNCHANGED LookupVarsNoUi

\* a click on the i-th <li>: its listener this.select(item)
ClickItem(i) ==
  /\ visible
  /\ i \in DOMAIN sugg
  /\ UiEvent("item")
  /\ StartSelect(sugg[i])
  /\ UNCHANGED <<hl, mapperKind, selErr>>
  /\ UNCHANGED pureVars
  /\ UNCHANGED initVars
  /\ UNCHANGED popVars
  /\ UNCHANGED posVars
  /\ UNCHANGED twoVars
  /\ UNCHANGED LookupVarsNoUi

\* The page calls the public el.select(item) itself with one of the rendered
\* suggestions, whether or not the list is shown (at most cap selections).
DirectSelect(i, cap) ==
  /\ i \in DOMAIN sugg
  /\ UiEvent("call")
  /\ IF sugg[i].rec.adr THEN SelectBodyCap(sugg[i], cap)
                        ELSE SelUnchanged /\ UNCHANGED visible
  /\ UNCHANGED <<hl, mapperKind, selErr>>
  /\ UNCHANGED pureVars
  /\ UNCHANGED initVars
  /\ UNCHANGED popVars
  /\ UNCHANGED posVars
  /\ UNCHANGED twoVars
  /\ UNCHANGED LookupVarsNoUi

ClickHidesAll(t) == TRUE

\* _handleClickOutside: hide unless the target is the input or in the list
ClickHides(t) == t # "input" /\ t # "list"

ClickOn(t) ==
  /\ visible' = IF ClickHides(t) THEN FALSE ELSE visible
  /\ UiEvent(t)
  /\ SelUnchanged
  /\ UNCHANGED <<hl, mapperKind, selErr>>
  /\ UNCHANGED pureVars
  /\ UNCHANGED initVars
  /\ UNCHANGED popVars
  /\ UNCHANGED posVars
  /\ UNCHANGED twoVars
  /\ UNCHANGED LookupVarsNoUi

Keys == {"ArrowDown", "ArrowUp", "Enter", "Escape"}
ClickTargets == {"input", "list", "outside"}

Next ==
  \/ \E v \in InputValues : Input(v)
  \/ \E d \in TickSizes : Tick(d)
  \/ TimerFire
  \/ DirectLookup
  \/ \E l \in Lookups, k \in 0..MaxResults, sh \in RecShapes : Receive(l, k, sh)
  \/ \E l \in Lookups : Fail(l)
  \/ \E l \in Lookups : AbortSettle(l)
  \/ \E l \in Lookups : Deliver(l)

Spec == Init /\ [][Next]_allVars

\* The suggestion list under the user's keyboard and mouse: the lookup
\* pipeline (time observed at the debounce delay), arrow keys, Escape,
\* keys while closed, and clicks on the input, the list or elsewhere.
NextList ==
  \/ \E v \in InputValues : Input(v)
  \/ Tick(Delay)
  \/ TimerFire
  \/ DirectLookup
  \/ \E l \in Lookups, k \in 0..MaxResults, sh \in RecShapes : Receive(l, k, sh)
  \/ \E l \in Lookups : Fail(l)
  \/ \E l \in Lookups : AbortSettle(l)
  \/ \E l \in Lookups : Deliver(l)
  \/ KeyArrowDown
  \/ KeyArrowUp
  \/ KeyEscape
  \/ \E key \in Keys : KeyIgnored(key)
  \/ \E t \in ClickTargets : ClickOn(t)

InitList == MainInit /\ PureIdle /\ InitIdle /\ ~useFuzzy

SpecList == InitList /\ [][NextList]_allVars

\* Selection from a rendered list: the state right after input "a ", the
\* debounce delay, lookup 1 and the render of its k >= 1 suggestions.
InitSelectOf(shapes) ==
  \E k \in 1..MaxResults, sh \in shapes :
    /\ now = Delay
    /\ inputValue = <<"a", " ">>
    /\ deadline = NoTimer
    /\ lastInput = 0
    /\ useFuzzy = FALSE
    /\ curCtl = 1
    /\ aborted = {}
    /\ nLookups = 1
    /\ lk = [l \in Lookups |-> IF l = 1
                               THEN [pc |-> "done", sig |-> 1, n |-> k,
                                     q |-> <<"a">>, shape |-> sh]
                               ELSE NoLookup]
    /\ visible = TRUE
    /\ sugg = RenderRows(Response(1, "primary", k, sh))
    /\ hl = -1
    /\ logged = {}
    /\ lastRender = [by |-> 1, latest |-> 1]
    /\ fires = 1
    /\ fireGap = Delay
    /\ burst = 0
    /\ firedBurst = 1
    /\ cancelled = {}
    /\ nDirect = 0
    /\ mapperKind \in MapperKinds
    /\ nSel = 0
    /\ lastSel = [serial |-> 0, item |-> NoItem]
    /\ selQ = <<>>
    /\ fields = [p \in MappedPathSet |-> NoWrite]
    /\ lastEvent = NoEvent
    /\ quiet = FALSE
    /\ nEvents = 0
    /\ selLog = [by |-> 0, fetched |-> FALSE, ref |-> FullSame, steps |-> <<>>]
    /\ selErr = {}
    /\ lastUi = "none"
    /\ PureIdle
    /\ InitIdle

InitSelect == InitSelectOf(SelectShapes)

NextSelect ==
  \/ KeyArrowDown
  \/ KeyArrowUp
  \/ KeyEnter
  \/ KeyEscape
  \/ \E key \in Keys : KeyIgnored(key)
  \/ \E i \in 1..MaxResults : ClickItem(i)
  \/ \E i \in 1..MaxResults : DirectSelect(i, MaxSelects)
  \/ \E t \in ClickTargets : ClickOn(t)
  \/ \E j \in 1..MaxSelects, b \in {TekstVal, OtherBetegnelse} : SelFetchOk(j, b)
  \/ \E j \in 1..MaxSelects : SelFetchFail(j)

SpecSelect == InitSelect /\ [][NextSelect]_allVars

TypeOK ==
  /\ lk \in [Lookups -> [pc : PCs, sig : 0..MaxLookups, n : 0..MaxResults,
                         q : Seq(Chars), shape : SelectShapes]]
  /\ hl \in -1..MaxResults

\* ---------------------------------------------------------------------
\* _buildQueryParameters(isFuzzy): URLSearchParams.set in code order:
\* q (if the trimmed value is non-empty), then every own config key except
\* ui and useFuzzyFallback, then fuzzy=true on the fallback request.
\* ---------------------------------------------------------------------
ParamInputs == {<<>>, <<" ">>, <<"a", " ">>, <<" ", "a">>}
ExtraKeys == {"postnr", "q", "fuzzy"}
ConfigVals == {StrVal(<<"1", "5">>), NumVal(17), BoolVal(TRUE)}
MergedConfigs ==
  { ("ui" :> ObjVal) @@ ("useFuzzyFallback" :> BoolVal(fz)) @@ extra :
      fz \in BOOLEAN, extra \in UNION {[K -> ConfigVals] : K \in SUBSET ExtraKeys} }

SetParam(p, key, val) == [k \in DOMAIN p \cup {key} |-> IF k = key THEN val ELSE p[k]]

BuildQueryParametersWithUi(value, config, isFuzzy) ==
  LET query == Trim(value)
      p0 == IF query # <<>> THEN ("q" :> query) ELSE EmptyObj
      keys == DOMAIN config \ {"useFuzzyFallback"}
      p1 == [k \in DOMAIN p0 \cup keys |-> IF k \in keys THEN ToStr(config[k]) ELSE p0[k]]
  IN IF isFuzzy THEN SetParam(p1, "fuzzy", TrueStr) ELSE p1

BuildQueryParameters(value, config, isFuzzy) ==
  LET query == Trim(value)
      p0 == IF query # <<>> THEN ("q" :> query) ELSE EmptyObj
      keys == DOMAIN config \ {"ui", "useFuzzyFallback"}
      p1 == [k \in DOMAIN p0 \cup keys |-> IF k \in keys THEN ToStr(config[k]) ELSE p0[k]]
  IN IF isFuzzy THEN SetParam(p1, "fuzzy", TrueStr) ELSE p1

BuildParams ==
  /\ ~pureDone
  /\ qParams' = BuildQueryParameters(qValue, qConfig, qFuzzy)
  /\ pureDone' = TRUE
  /\ UNCHANGED <<qValue, qConfig, qFuzzy, supplied, effective, cfgThrew>>
  /\ UNCHANGED vars
  /\ UNCHANGED initVars
  /\ UNCHANGED popVars
  /\ UNCHANGED posVars
  /\ UNCHANGED twoVars

InitParams ==
  /\ MainInit
  /\ InitIdle
  /\ qValue \in ParamInputs
  /\ qConfig \in MergedConfigs
  /\ qFuzzy \in BOOLEAN
  /\ qParams = EmptyObj
  /\ supplied = EmptyObj
  /\ effective = EmptyObj
  /\ pureDone = FALSE
  /\ cfgThrew = FALSE

NextParams == BuildParams

SpecParams == InitParams /\ [][NextParams]_allVars

\* ---------------------------------------------------------------------
\* set config(newConfig): { ..._defaults, ...newConfig,
\*                          ui: { ..._defaults.ui, ...newConfig.ui } }
\* ---------------------------------------------------------------------
DefaultUi ==
  ("address" :> StrVal(<<"#","a","d","d","r","e","s","s">>)) @@
  ("etage" :> StrVal(<<"#","e","t","a","g","e">>)) @@
  ("dør" :> StrVal(<<"#","d","o","e","r">>)) @@
  ("adgangsadresse.vejstykke.navn" :> StrVal(<<"#","v","e","j","n","a","v","n">>)) @@
  ("adgangsadresse.husnr" :> StrVal(<<"#","h","u","s","n","r">>)) @@
  ("adgangsadresse.postnummer.nr" :> StrVal(<<"#","p","o","s","t","n","r">>)) @@
  ("adgangsadresse.postnummer.navn" :> StrVal(<<"#","p","o","s","t","n","r","n","a","v","n">>)) @@
  ("adgangsadresse.kommune.kode" :> StrVal(<<"#","k","o","m","m","u","n","e","k","o","d","e">>)) @@
  ("adgangsadresse.kommune.navn" :> StrVal(<<"#","k","o","m","m","u","n","e">>))

Defaults == ("ui" :> DefaultUi) @@ ("useFuzzyFallback" :> BoolVal(FALSE))

\* object spread {...a, ...b}
Spread(a, b) == [k \in DOMAIN a \cup DOMAIN b |-> IF k \in DOMAIN b THEN b[k] ELSE a[k]]

ConfigMergeShallow(n) == Spread(Defaults, n)

ConfigMerge(n) ==
  LET merged == Spread(Defaults, n)
      ui == Spread(DefaultUi, IF "ui" \in DOMAIN n THEN n["ui"] ELSE EmptyObj)
  IN [k \in DOMAIN merged \cup {"ui"} |-> IF k = "ui" THEN ui ELSE merged[k]]

SuppliedPaths == {"address", "adgangsadresse.husnr", "adgangsadresse.vejstykke.kode"}
SuppliedUis == UNION {[K -> {StrVal(<<"#", "x">>), ObjVal}] : K \in SUBSET SuppliedPaths}
SuppliedConfigs ==
  { u @@ f @@ extra :
      u \in {EmptyObj} \cup {("ui" :> x) : x \in SuppliedUis},
      f \in {EmptyObj} \cup {("useFuzzyFallback" :> v) : v \in {BoolVal(TRUE), BoolVal(FALSE), UndefVal}},
      extra \in {EmptyObj, ("postnr" :> StrVal(<<"1", "5">>)), ("per_side" :> NumVal(7))} }


\* ---------------------------------------------------------------------
\* Properties of the lookup pipeline
\* ---------------------------------------------------------------------

\* C1: once a lookup B has started, no response of an earlier lookup A is
\* ever rendered: whoever rendered last was the newest lookup at that time.
StaleNeverRendered == lastRender.by = lastRender.latest

\* Live calls: issued, still pending on the network, signal not aborted.
LiveCalls == {l \in Lookups : Pending(l) /\ lk[l].sig \notin aborted}

\* C2: at most one lookup network call (primary or fuzzy) is live.
SingleFlight == Cardinality(LiveCalls) <= 1

CancelSilent ==
  [][
    \A l \in Lookups :
      (Pending(l) /\ lk[l].sig \in aborted /\ lk'[l].pc = "done")
        => /\ logged' = logged
           /\ visible' = visible
           /\ sugg' = sugg
           /\ hl' = hl
  ]_vars

\* C4 witness: a cancelled lookup while a list rendered by a newer one shows.
CancelSilentWitness ==
  \E l \in cancelled : l \notin logged /\ visible /\ lastRender.by > l

\* C5: the fuzzy call is issued only from a completed primary call with 0
\* results and the flag on, and always in that case.
FuzzyFallback ==
  [][
    \A l \in Lookups :
      /\ (lk'[l].pc = "fuzzyPending" /\ lk[l].pc # "fuzzyPending")
           => (lk[l].pc = "primaryReceived" /\ lk[l].n = 0 /\ useFuzzy)
      /\ (lk[l].pc = "primaryReceived" /\ lk'[l].pc # "primaryReceived")
           => (lk'[l].pc = "fuzzyPending" <=> (lk[l].n = 0 /\ useFuzzy))
  ]_vars

FuzzyFallbackWitness == \E l \in Lookups : lk[l].pc = "fuzzyPending"

\* C6: rendered suggestions are flagged fuzzy (and show the indicator)
\* exactly when they come from the fuzzy call.
FuzzyTagged ==
  \A i \in DOMAIN sugg :
    /\ sugg[i].isFuzzy = (sugg[i].phase = "fuzzy")
    /\ sugg[i].indicator = sugg[i].isFuzzy

FuzzyTaggedWitness == \E i \in DOMAIN sugg : sugg[i].phase = "fuzzy"

\* a value made only of whitespace
WhitespaceOnly(s) == \A i \in 1..Len(s) : s[i] = " "

\* C8: a lookup fired on an empty or whitespace-only value makes no call and
\* clears and closes the list at once.
EmptyQuery ==
  [][
    \A l \in Lookups :
      (lk[l].pc = "none" /\ lk'[l].pc # "none" /\ WhitespaceOnly(inputValue))
        => /\ lk'[l].pc = "done"
           /\ ~visible'
           /\ sugg' = <<>>
  ]_vars

EmptyQueryWitness ==
  \E l \in Lookups : lk[l].pc = "done" /\ lk[l].q = <<>> /\ Len(inputValue) > 0
                     /\ lastRender.by = l /\ l > 1

\* C9: a genuine (non-abort) failure of a lookup call is logged and leaves
\* the suggestion list closed.
ErrorCloses ==
  [][
    \A l \in Lookups :
      (Pending(l) /\ lk[l].sig \notin aborted /\ lk'[l].pc = "done"
         /\ l \in logged' \ logged)
        => ~visible'
  ]_vars

\* ---------------------------------------------------------------------
\* Properties of the pure operations
\* ---------------------------------------------------------------------
ParamKeys == DOMAIN qConfig \ {"ui", "useFuzzyFallback"}

ConfigMerged ==
  pureDone =>
    LET sui == IF "ui" \in DOMAIN supplied THEN supplied["ui"] ELSE EmptyObj
        eui == effective["ui"]
    IN /\ \A p \in DOMAIN DefaultUi \ DOMAIN sui :
            p \in DOMAIN eui /\ eui[p] = DefaultUi[p]
       /\ \A p \in DOMAIN sui : p \in DOMAIN eui /\ eui[p] = sui[p]
       /\ \A k \in DOMAIN supplied \ {"ui"} :
            k \in DOMAIN effective /\ effective[k] = supplied[k]
       /\ Truthy(effective["useFuzzyFallback"])
            <=> ("useFuzzyFallback" \in DOMAIN supplied
                 /\ Truthy(supplied["useFuzzyFallback"]))

ConfigMergedWitness ==
  /\ pureDone
  /\ "ui" \in DOMAIN supplied /\ "address" \in DOMAIN supplied["ui"]
  /\ "adgangsadresse.vejstykke.kode" \in DOMAIN supplied["ui"]
  /\ "postnr" \in DOMAIN supplied

\* ---------------------------------------------------------------------
\* Properties of the suggestion list
\* ---------------------------------------------------------------------

\* C12: every render replaces the suggestions by exactly the rendering
\* lookup's results, resets the highlight to -1, and leaves the list open
\* iff there is at least one suggestion.
RenderReplaces ==
  [][ lastRender' # lastRender =>
        /\ hl' = -1
        /\ visible' <=> Len(sugg') > 0
        /\ Len(sugg') = lk'[lastRender'.by].n
        /\ \A i \in DOMAIN sugg' : sugg'[i].from = lastRender'.by
  ]_vars

RenderReplacesWitness == lastRender.by = 2 /\ visible /\ Len(sugg) = 2

\* C13: the highlighted index always lies in [-1, count - 1].
HlInRange == hl \in -1..(Len(sugg) - 1)

HlInRangeWitness == lastRender.by = 2 /\ Len(sugg) = 2 /\ hl = 1

Closing ==
  [][ /\ (lastUi' = "Escape" /\ KeyOpen) => ~visible'
      /\ lastUi' = "outside" => ~visible'
      /\ lastUi' \in {"input", "list"} => visible' = visible
  ]_vars

ClosingWitness == lastUi = "list" /\ visible /\ Len(sugg) > 0

\* ---------------------------------------------------------------------
\* Properties of selection
\* ---------------------------------------------------------------------

\* C15: Enter while open with index >= 0 selects exactly the highlighted
\* suggestion; Enter with index -1 or while closed selects nothing. (A
\* suggestion without an address record makes select return at once: C36.)
EnterSelects ==
  [][ lastUi' = "Enter" =>
        IF KeyOpen /\ hl >= 0 /\ sugg[hl + 1].rec.adr
        THEN nSel' = nSel + 1 /\ lastSel'.item = sugg[hl + 1]
        ELSE nSel' = nSel
  ]_vars

EnterSelectsWitness == lastUi = "Enter" /\ nSel = 1 /\ lastSel.item.idx = 2

\* C17: after a successful selection the primary field holds the
\* suggestion's display text.
PrimaryHoldsTekst ==
  [][ nEvents' > nEvents => inputValue' = lastEvent'.tekst ]_vars

\* C18: a successful select runs: (detail fetch,) close the list, write the
\* primary field, populate the mappings, emit the event.
SelectOrder ==
  [][ nEvents' > nEvents =>
        selLog'.steps = (IF selLog'.fetched THEN <<"fetch">> ELSE <<>>)
                          \o <<"close", "primary", "fields", "emit">>
  ]_vars

\* C19: a record without adgangsadresse.kommune but with an href is fetched
\* before population, and the fetched record is used for population and
\* the event; a failed detail fetch is logged, writes no field and emits
\* no event.
DetailFetch ==
  [][ /\ selErr' # selErr =>
           /\ inputValue' = inputValue
           /\ fields' = fields
           /\ nEvents' = nEvents
           /\ selLog' = selLog
      /\ selLog' # selLog =>
           (selLog'.fetched <=> (~selLog'.ref.kommune /\ selLog'.ref.href))
      /\ nEvents' > nEvents => lastEvent'.fetched = selLog'.fetched
  ]_vars

DetailFetchWitness == selLog.fetched /\ nEvents = 1 /\ lastEvent.fetched

\* C20: a throwing mapper skips only its own field: every other mapping is
\* populated and the selection completes (list closed, event emitted).
MapperIsolated ==
  [][ (selLog' # selLog /\ mapperKind = "throws") =>
        /\ nEvents' = nEvents + 1
        /\ ~visible'
        /\ \A p \in MappedPathSet \ {MapperPath} : fields'[p] = selLog'.by
  ]_vars

\* ---------------------------------------------------------------------
\* set config and _initialize: what a configuration installs
\* ---------------------------------------------------------------------

MaxConfigs == 2
MaxTyped == 2

\* newConfig.ui.address as supplied: "absent" leaves the default in place,
\* "undefined" is an own property holding undefined.
AddrSupplied == {"absent", "#alt", "", "undefined", "#nope"}
TypedValues == {"", "a"}

\* { ...NetsiAddress._defaults.ui, ...newConfig.ui }.address
MergedAddr(a) == IF a = "absent" THEN "#address" ELSE a

\* !this._config.ui?.address
AddrMissing(sel) == sel \in {"", "undefined"}

\* document.querySelector(selector)
QuerySelector(sel) ==
  CASE sel = "#address" -> "E1"
    [] sel = "#alt"     -> "E2"
    [] OTHER            -> NoElem

\* The selector string of the merged ui.address value (a string value here).
SelectorOf(v) ==
  CASE v.t = "undefined"               -> "undefined"
    [] v.s = DefaultUi["address"].s    -> "#address"
    [] v.s = <<"#", "a", "l", "t">>    -> "#alt"
    [] v.s = <<>>                      -> ""
    [] OTHER                           -> "#x"

\* set config(newConfig): merge, then _initialize (_injectStyles,
\* _createSuggestionsUI, _attachListeners). Listener functions are bound
\* once per component, so attaching again to the same target adds nothing.
\* _initialize() with this._config.ui.address = sel: the lines it changes.
InitializeSel(sel) ==
  IF AddrMissing(sel)
  THEN /\ errs' = errs + 1
       /\ lastCfgOk' = FALSE
       /\ UNCHANGED <<inputEl, styles, nLists, listenOn, docListen,
                      listsIn, curList, winListen, cOpen>>
  ELSE IF QuerySelector(sel) = NoElem
  THEN /\ inputEl' = NoElem
       /\ errs' = errs + 1
       /\ lastCfgOk' = FALSE
       /\ UNCHANGED <<styles, nLists, listenOn, docListen, listsIn,
                      curList, winListen, cOpen>>
  ELSE /\ inputEl' = QuerySelector(sel)
       /\ styles' = TRUE
       /\ nLists' = nLists + 1
       /\ listenOn' = listenOn \cup {QuerySelector(sel)}
       /\ listsIn' = listsIn \cup {nLists + 1}
       /\ curList' = nLists + 1
       /\ cOpen' = FALSE
       /\ docListen' = TRUE
       /\ winListen' = TRUE
       /\ lastCfgOk' = TRUE
       /\ UNCHANGED errs

Initialize(a) ==
  /\ nCfg < MaxConfigs
  /\ nCfg' = nCfg + 1
  /\ InitializeSel(MergedAddr(a))
  /\ UNCHANGED <<elVal, nTyped, cLookups, nDisc, cTimer, cPending>>
  /\ UNCHANGED vars
  /\ UNCHANGED pureVars
  /\ UNCHANGED popVars
  /\ UNCHANGED posVars
  /\ UNCHANGED twoVars

\* The user types into element e. If e carries the input listener
\* (_debouncedLookup), the debounce restarts: clearTimeout(timeoutId);
\* timeoutId = setTimeout(lookup, 350).
TypeInto(e, v) ==
  /\ nTyped < MaxTyped
  /\ nTyped' = nTyped + 1
  /\ elVal' = [elVal EXCEPT ![e] = v]
  /\ IF e \in listenOn THEN cTimer' = TRUE ELSE UNCHANGED cTimer
  /\ UNCHANGED <<inputEl, styles, nLists, listenOn, docListen, errs, nCfg,
                 lastCfgOk, listsIn, curList, winListen, nDisc, cLookups,
                 cOpen, cPending>>
  /\ UNCHANGED vars
  /\ UNCHANGED pureVars
  /\ UNCHANGED popVars
  /\ UNCHANGED posVars
  /\ UNCHANGED twoVars

\* The debounce timer fires lookup(): abort the in-flight fetch, read
\* this._inputEl?.value.trim() now; a blank or undefined query renders []
\* (hiding the current list), otherwise the fetch is issued.
CfgFire ==
  /\ cTimer
  /\ cTimer' = FALSE
  /\ IF inputEl = NoElem \/ elVal[inputEl] = ""
     THEN /\ cOpen' = FALSE
          /\ cPending' = FALSE
          /\ UNCHANGED cLookups
     ELSE /\ cLookups' = cLookups + 1
          /\ cPending' = TRUE
          /\ UNCHANGED cOpen
  /\ UNCHANGED <<inputEl, styles, nLists, listenOn, docListen, errs, nCfg,
                 lastCfgOk, listsIn, curList, winListen, nDisc, elVal, nTyped>>
  /\ UNCHANGED vars
  /\ UNCHANGED pureVars
  /\ UNCHANGED popVars
  /\ UNCHANGED posVars
  /\ UNCHANGED twoVars

\* The fetch settles: _renderSuggestions(data) on the current
\* this._suggestionsEl shows it (results) or hides it (none); a failure is
\* only logged.
CfgRender ==
  /\ cPending
  /\ cPending' = FALSE
  /\ cOpen' \in BOOLEAN
  /\ UNCHANGED <<inputEl, styles, nLists, listenOn, docListen, errs, nCfg,
                 lastCfgOk, listsIn, curList, winListen, nDisc, elVal, nTyped,
                 cLookups, cTimer>>
  /\ UNCHANGED vars
  /\ UNCHANGED pureVars
  /\ UNCHANGED popVars
  /\ UNCHANGED posVars
  /\ UNCHANGED twoVars

MaxDisc == 2

\* disconnectedCallback: remove the input and keydown listeners from the
\* current this._inputEl, the document click listener and the window
\* listeners, remove the current this._suggestionsEl and the style element.

\* this._inputEl?.removeEventListener(...)
RemoveListeners(el) == IF el = NoElem THEN listenOn ELSE listenOn \ {el}

Disconnect ==
  /\ nDisc < MaxDisc
  /\ nDisc' = nDisc + 1
  /\ listenOn' = RemoveListeners(inputEl)
  /\ docListen' = FALSE
  /\ winListen' = FALSE
  /\ listsIn' = listsIn \ {curList}
  /\ styles' = FALSE
  /\ UNCHANGED <<inputEl, nLists, errs, nCfg, lastCfgOk, elVal, nTyped,
                 cLookups, cOpen, curList, cTimer, cPending>>
  /\ UNCHANGED vars
  /\ UNCHANGED pureVars
  /\ UNCHANGED popVars
  /\ UNCHANGED posVars
  /\ UNCHANGED twoVars

InitCfg == MainInit /\ PureIdle /\ InitIdle

NextCfg ==
  \/ \E a \in AddrSupplied : Initialize(a)
  \/ \E e \in Elems, v \in TypedValues : TypeInto(e, v)
  \/ CfgFire
  \/ CfgRender
  \/ Disconnect

SpecCfg == InitCfg /\ [][NextCfg]_allVars

\* set config(newConfig): this._config = { ...merge... }; this._initialize().
\* document.querySelector(this._config.ui.address) throws a SyntaxError for
\* an object-valued selector ("[object Object]"), and the setter throws
\* after this._config has been assigned.
SetConfig ==
  /\ ~pureDone
  /\ effective' = ConfigMerge(supplied)
  /\ pureDone' = TRUE
  /\ nCfg' = nCfg + 1
  /\ LET addr == ConfigMerge(supplied)["ui"]["address"] IN
       IF addr.t = "object"
       THEN /\ cfgThrew' = TRUE
            /\ UNCHANGED <<inputEl, styles, nLists, listenOn, docListen, errs,
                           lastCfgOk, listsIn, curList, winListen, cOpen>>
       ELSE /\ cfgThrew' = FALSE
            /\ InitializeSel(SelectorOf(addr))
  /\ UNCHANGED <<elVal, nTyped, cLookups, nDisc, cTimer, cPending>>
  /\ UNCHANGED <<qValue, qConfig, qFuzzy, qParams, supplied>>
  /\ UNCHANGED vars
  /\ UNCHANGED popVars
  /\ UNCHANGED posVars
  /\ UNCHANGED twoVars

InitConfig ==
  /\ MainInit
  /\ InitIdle
  /\ qValue = <<>>
  /\ qConfig = EmptyObj
  /\ qFuzzy = FALSE
  /\ qParams = EmptyObj
  /\ supplied \in SuppliedConfigs
  /\ effective = EmptyObj
  /\ pureDone = FALSE
  /\ cfgThrew = FALSE

NextConfig == SetConfig

SpecConfig == InitConfig /\ [][NextConfig]_allVars

\* C11: a configuration whose address selector is missing or matches no
\* element logs an error and installs no styles, list or listeners, and the
\* component is then inert: typing issues no lookup and opens no list (no
\* step until the next configuration does either).
InertOnError ==
  [][ /\ (nCfg' > nCfg /\ errs' > errs) =>
           /\ UNCHANGED <<styles, nLists, listenOn, docListen>>
      /\ (nCfg > 0 /\ ~lastCfgOk /\ nCfg' = nCfg) =>
           (cLookups' = cLookups /\ (cOpen' => cOpen))
  ]_initVars

\* ---------------------------------------------------------------------
\* _getValue and one iteration of the _populate loop
\* ---------------------------------------------------------------------

MaxPathLen == 3

\* Characters of a ui key, and the property names records carry.
PathChars == {"a", "b", "."}
KeySegs == {<<"a">>, <<"b">>}

\* Dot-paths: every non-empty string over PathChars up to MaxPathLen.
PathStrings == UNION {[1..k -> PathChars] : k \in 1..MaxPathLen}

\* path.split(".")
RECURSIVE SplitFrom(_, _, _)
SplitFrom(str, cur, acc) ==
  IF str = <<>> THEN Append(acc, cur)
  ELSE IF Head(str) = "."
       THEN SplitFrom(Tail(str), <<>>, Append(acc, cur))
       ELSE SplitFrom(Tail(str), Append(cur, Head(str)), acc)
Split(str) == SplitFrom(str, <<>>, <<>>)

\* A record is an object whose own properties a and b hold JavaScript
\* values; an object property holds an object whose properties hold
\* primitives. A record maps each node (a sequence of property names) to
\* its value; a property that is not own reads as undefined.
NodePaths == {<<k>> : k \in KeySegs} \cup {<<k, j>> : k, j \in KeySegs}
TopVals == {UndefVal, NullVal, NumVal(0), StrVal(<<"x">>), ObjVal}
LeafVals == {UndefVal, NullVal, StrVal(<<"x">>)}
Records ==
  LET top == [KeySegs -> TopVals]
      kids == [KeySegs \X KeySegs -> LeafVals]
  IN { [n \in NodePaths |->
          IF Len(n) = 1 THEN t[n[1]]
          ELSE IF t[n[1]] = ObjVal THEN c[<<n[1], n[2]>>] ELSE UndefVal]
       : t \in top, c \in kids }

\* acc[part] for an object acc reached through the node pre
Child(rec, pre, seg) ==
  IF Append(pre, seg) \in NodePaths THEN rec[Append(pre, seg)] ELSE UndefVal

\* acc[part]: an object yields its property, any other truthy value
\* (a string or number) has no own property a or b.
Member(rec, pre, acc, seg) ==
  IF acc.t = "object" THEN Child(rec, pre, seg) ELSE UndefVal

\* The reduce without the acc && guard: reading a property of null or
\* undefined throws a TypeError.
RECURSIVE ReduceNoGuard(_, _, _, _)
ReduceNoGuard(rec, pre, acc, rest) ==
  IF rest = <<>> THEN [thrown |-> FALSE, val |-> acc]
  ELSE IF acc.t \in {"undefined", "null"}
       THEN [thrown |-> TRUE, val |-> UndefVal]
       ELSE ReduceNoGuard(rec, Append(pre, Head(rest)),
                          Member(rec, pre, acc, Head(rest)), Tail(rest))

\* .reduce((acc, part) => acc && acc[part], obj)
RECURSIVE Reduce(_, _, _, _)
Reduce(rec, pre, acc, rest) ==
  IF rest = <<>> THEN [thrown |-> FALSE, val |-> acc]
  ELSE IF ~Truthy(acc)
       THEN Reduce(rec, pre, acc, Tail(rest))
       ELSE Reduce(rec, Append(pre, Head(rest)),
                   Member(rec, pre, acc, Head(rest)), Tail(rest))

GetValueNoGuard(rec, path) == ReduceNoGuard(rec, <<>>, ObjVal, Split(path))

\* _getValue(obj, path)
GetValue(rec, path) == Reduce(rec, <<>>, ObjVal, Split(path))

\* The mapper of the README example: formats the raw value into a string.
MapperKindsPop == {"none", "fmt"}
MapperOut(raw, rec) == StrVal(<<"d">> \o ToStr(raw))

\* Targets: an <input> (has a value property) or a <strong> (does not), or
\* no element matches the selector.
Targets == {"input", "strong", "none"}
OldText == <<"o">>

\* HTMLInputElement.value = v: [LegacyNullToEmptyString] DOMString, so null
\* becomes "" and every other value String(v).
DomString(v) == IF v.t = "null" THEN <<>> ELSE ToStr(v)

\* One iteration of the _populate loop for key pPath: resolve the raw value,
\* apply the mapper, and assign targetEl.value if the selector matched.
PopulateField ==
  /\ ~pDone
  /\ pDone' = TRUE
  /\ LET out == GetValue(pTree, pPath)
         v == IF pMapper = "fmt" THEN MapperOut(out.val, pTree) ELSE out.val
     IN /\ pOut' = out
        /\ IF pTarget = "none" \/ out.thrown
           THEN UNCHANGED <<pShown, pProp>>
           ELSE IF pTarget = "input"
                THEN /\ pProp' = StrVal(DomString(v))
                     /\ pShown' = DomString(v)
                ELSE /\ pProp' = v
                     /\ UNCHANGED pShown
  /\ UNCHANGED <<pTree, pPath, pTarget, pMapper>>
  /\ UNCHANGED vars
  /\ UNCHANGED pureVars
  /\ UNCHANGED initVars
  /\ UNCHANGED twoVars
  /\ UNCHANGED posVars

InitPopulate ==
  /\ MainInit
  /\ PureIdle
  /\ CfgIdle
  /\ TwoIdle
  /\ PosIdle
  /\ pTree \in Records
  /\ pPath \in PathStrings
  /\ pTarget \in Targets
  /\ pMapper \in MapperKindsPop
  /\ pDone = FALSE
  /\ pOut = [thrown |-> FALSE, val |-> UndefVal]
  /\ pShown = OldText
  /\ pProp = UndefVal

NextPopulate == PopulateField

SpecPopulate == InitPopulate /\ [][NextPopulate]_allVars

\* Node k of the path (k segments in), read directly from the record.
Segs == Split(pPath)
NodeAt(k) ==
  IF k = 0 THEN ObjVal
  ELSE IF SubSeq(Segs, 1, k) \in NodePaths THEN pTree[SubSeq(Segs, 1, k)]
  ELSE UndefVal
AllInnerObjects == \A k \in 1..(Len(Segs) - 1) : NodeAt(k) = ObjVal
AbsentVals == {UndefVal, NullVal, StrVal(<<>>)}

AssignedValue == IF pMapper = "fmt" THEN MapperOut(pOut.val, pTree) ELSE pOut.val

\* C22: a mapping without a mapper whose path resolves to undefined or null
\* leaves its target showing the empty string, never "undefined" or "null".
MissingWritesEmpty ==
  (pDone /\ pMapper = "none" /\ pTarget # "none"
         /\ pOut.val.t \in {"undefined", "null"}) => pShown = <<>>

\* C23: with a mapper, the target shows the mapper's return value for
\* (rawValue, fullRecord), not the raw value.
TransformShown ==
  (pDone /\ pMapper = "fmt" /\ pTarget # "none")
    => pShown = MapperOut(pOut.val, pTree).s

\* C24: a form control shows the value in its value, any other element
\* shows it as its text content, and a mapping whose selector matches no
\* element leaves the page unchanged.
TargetWrite ==
  pDone =>
    /\ pTarget = "input" => pShown = DomString(AssignedValue)
    /\ pTarget = "strong" => pShown = DomString(AssignedValue)
    /\ pTarget = "none" => (pShown = OldText /\ pProp = UndefVal)

\* C25: each successful selection dispatches exactly one
\* netsi-address:select event on the host element, and it bubbles, is
\* composed and is cancelable; a failed detail fetch dispatches none.
SelectEventShape ==
  [][ /\ nEvents' > nEvents =>
           /\ nEvents' = nEvents + 1
           /\ lastEvent'.name = SelectEventName
           /\ lastEvent'.target = "host"
           /\ lastEvent'.init.bubbles
           /\ lastEvent'.init.composed
           /\ lastEvent'.init.cancelable
      /\ selErr' # selErr => nEvents' = nEvents
  ]_vars

\* C26: the select event's detail is the resolved address record itself.
DetailIsRecord ==
  [][ nEvents' > nEvents => lastEvent'.detail = lastEvent'.rec ]_vars

\* C27: teardown releases every listener initialization registered (input,
\* keydown, document click, window resize and scroll) and removes the style
\* element and every list element it created; a repeated teardown leaves
\* the same state.
TeardownReleases ==
  [][ nDisc' > nDisc =>
        /\ listenOn' = {}
        /\ ~docListen'
        /\ ~winListen'
        /\ ~styles'
        /\ listsIn' = {}
  ]_initVars

\* ---------------------------------------------------------------------
\* Two component instances on one page
\* ---------------------------------------------------------------------

\* set config on instance i with its input present: _injectStyles adds the
\* shared style element unless one with its id exists, _createSuggestionsUI
\* appends a new list. A removed instance may be inserted and configured
\* again.
ConfigureInstance(i) ==
  /\ iCfgs[i] < MaxConfigs
  /\ iCfgs' = [iCfgs EXCEPT ![i] = iCfgs[i] + 1]
  /\ iState' = [iState EXCEPT ![i] = "live"]
  /\ tListsIn' = tListsIn \cup {<<i, iCfgs[i] + 1>>}
  /\ tStyle' = TRUE
  /\ iOpen' = [iOpen EXCEPT ![i] = FALSE]
  /\ UNCHANGED vars
  /\ UNCHANGED pureVars
  /\ UNCHANGED initVars
  /\ UNCHANGED popVars
  /\ UNCHANGED posVars

\* _renderSuggestions with results (_showSuggestions) or _hideSuggestions
\* on the instance's current list: also after its removal, when a lookup
\* in flight at disconnectedCallback settles.
ShowHide(i, open) ==
  /\ iCfgs[i] > 0
  /\ iOpen' = [iOpen EXCEPT ![i] = open]
  /\ UNCHANGED <<iState, iCfgs, tListsIn, tStyle>>
  /\ UNCHANGED vars
  /\ UNCHANGED pureVars
  /\ UNCHANGED initVars
  /\ UNCHANGED popVars
  /\ UNCHANGED posVars

\* disconnectedCallback of instance i, on every removal of an instance in
\* the page (configured or not): this._suggestionsEl?.remove() and
\* document.getElementById("netsi-address-styles")?.remove().
DisconnectInstance(i) ==
  /\ iState[i] # "gone"
  /\ iState' = [iState EXCEPT ![i] = "gone"]
  /\ tListsIn' = tListsIn \ {<<i, iCfgs[i]>>}
  /\ tStyle' = FALSE
  /\ UNCHANGED <<iCfgs, iOpen>>
  /\ UNCHANGED vars
  /\ UNCHANGED pureVars
  /\ UNCHANGED initVars
  /\ UNCHANGED popVars
  /\ UNCHANGED posVars

\* A removed instance is inserted into the page again: connectedCallback
\* does nothing, so it stays without listeners or list until configured.
Reinsert(i) ==
  /\ iState[i] = "gone"
  /\ iState' = [iState EXCEPT ![i] = "back"]
  /\ UNCHANGED <<iCfgs, iOpen, tListsIn, tStyle>>
  /\ UNCHANGED vars
  /\ UNCHANGED pureVars
  /\ UNCHANGED initVars
  /\ UNCHANGED popVars
  /\ UNCHANGED posVars

InitTwo == MainInit /\ PureIdle /\ InitIdle /\ ~useFuzzy

NextTwo ==
  \/ \E i \in Instances : ConfigureInstance(i)
  \/ \E i \in Instances, open \in BOOLEAN : ShowHide(i, open)
  \/ \E i \in Instances : DisconnectInstance(i)
  \/ \E i \in Instances : Reinsert(i)

SpecTwo == InitTwo /\ [][NextTwo]_allVars

\* C28: tearing down one instance leaves every live instance with its
\* current list in the document and the shared styles present.
SharedKept ==
  \A i \in Instances :
    iState[i] = "live" => (tStyle /\ <<i, iCfgs[i]>> \in tListsIn)

\* ---------------------------------------------------------------------
\* Positioning of the suggestion list
\* ---------------------------------------------------------------------

\* Input rectangles and scroll offsets the page can be in.
RectLefts == {0, 5}
RectBottoms == {10, 20}
RectWidths == {100}
ScrollOffsets == {0, 7}
Rects == [left : RectLefts, bottom : RectBottoms, width : RectWidths]
Scrolls == [x : ScrollOffsets, y : ScrollOffsets]

\* `${n}px`
Px(n) == NumToStr(n) \o <<"p", "x">>

\* _repositionSuggestions
RepositionStyle(r, sc) ==
  [left |-> Px(r.left + sc.x), top |-> Px(r.bottom + sc.y), width |-> Px(r.width)]

\* The input moves on the page with no resize or scroll event.
LayoutShift(r) ==
  /\ pRect' = r
  /\ posEv' = "layout"
  /\ UNCHANGED <<pScroll, posStyle, posOpen>>

\* A resize or scroll event reaches the window listener
\* (this._boundReposition), which repositions whether or not the list is open.
WindowEvent(ev, r, sc) ==
  /\ pRect' = r
  /\ pScroll' = sc
  /\ posEv' = ev
  /\ posStyle' = RepositionStyle(r, sc)
  /\ UNCHANGED posOpen

ShowNoReposition ==
  /\ posOpen' = TRUE
  /\ posEv' = "show"
  /\ UNCHANGED <<pRect, pScroll, posStyle>>

\* _showSuggestions: add class visible, then _repositionSuggestions.
ShowSuggestions ==
  /\ posOpen' = TRUE
  /\ posEv' = "show"
  /\ posStyle' = RepositionStyle(pRect, pScroll)
  /\ UNCHANGED <<pRect, pScroll>>

\* _hideSuggestions
HideSuggestions ==
  /\ posOpen' = FALSE
  /\ posEv' = "hide"
  /\ UNCHANGED <<pRect, pScroll, posStyle>>

PosFrame ==
  /\ UNCHANGED vars
  /\ UNCHANGED pureVars
  /\ UNCHANGED initVars
  /\ UNCHANGED popVars
  /\ UNCHANGED twoVars

InitPos ==
  /\ MainInit /\ PureIdle /\ CfgIdle /\ PopIdle /\ TwoIdle /\ ~useFuzzy
  /\ pRect \in Rects
  /\ pScroll \in Scrolls
  /\ posStyle = NoStyle
  /\ posOpen = FALSE
  /\ posEv = "none"

NextPos ==
  /\ PosFrame
  /\ \/ \E r \in Rects : LayoutShift(r)
     \/ \E ev \in {"resize", "scroll"}, r \in Rects, sc \in Scrolls :
          WindowEvent(ev, r, sc)
     \/ ShowSuggestions
     \/ HideSuggestions

SpecPos == InitPos /\ [][NextPos]_allVars

NextAfter ==
  \/ NextSelect
  \/ \E v \in InputValues : Input(v)
  \/ Tick(Delay)
  \/ TimerFire
  \/ DirectLookup
  \/ \E l \in Lookups, k \in 0..MaxResults, sh \in RecShapes : Receive(l, k, sh)
  \/ \E l \in Lookups : Fail(l)
  \/ \E l \in Lookups : Deliver(l)

\* A configured mapper that returns: a throwing one stops select() before it
\* closes the list, so no selection completes.
InitAfter == InitSelectOf(RecShapes) /\ mapperKind = "returns"

SpecAfter == InitAfter /\ [][NextAfter]_allVars

\* C30: after a successful selection the list stays closed until the next
\* input event; a pending debounce timer or an in-flight lookup does not
\* reopen it.
ClosedAfterSelect == quiet => ~visible

\* C35: the q parameter of every request is exactly the trimmed input value
\* (absent when that is empty), whatever the configuration holds, and a
\* primary request never carries fuzzy.
QueryIntact ==
  pureDone =>
    /\ ("q" \in DOMAIN qParams) <=> (Trim(qValue) # <<>>)
    /\ "q" \in DOMAIN qParams => qParams["q"] = Trim(qValue)
    /\ ~qFuzzy => "fuzzy" \notin DOMAIN qParams

\* C34: ArrowUp while open with nothing highlighted highlights the last
\* suggestion.
ArrowUpFromNone ==
  [][ (lastUi' = "ArrowUp" /\ KeyOpen /\ hl = -1) => hl' = Len(sugg) - 1 ]_vars

\* C36: selecting a suggestion without an address record (by click, by
\* Enter or by a direct select call) writes no field, leaves the list as it
\* is and dispatches no event.
NoAddressNoop ==
  [][ (/\ lastUi' \in {"item", "Enter", "call"}
       /\ Len(sugg) > 0
       /\ \A i \in DOMAIN sugg : ~sugg[i].rec.adr)
        => /\ inputValue' = inputValue
           /\ fields' = fields
           /\ visible' = visible
           /\ nEvents' = nEvents
           /\ selQ' = selQ
  ]_vars

NoAddressNoopWitness ==
  /\ lastUi = "item"
  /\ Len(sugg) > 0
  /\ \A i \in DOMAIN sugg : ~sugg[i].rec.adr

\* C33: however often config is assigned, at most one list element of the
\* component is in the document and only the current input carries its
\* listeners; after teardown no list element or listener remains.
SingleOwnership ==
  [][ /\ Cardinality(listsIn') <= 1
      /\ listenOn' \subseteq {inputEl'}
      /\ nDisc' > nDisc => (listsIn' = {} /\ listenOn' = {})
  ]_initVars

\* ---------------------------------------------------------------------
\* Teardown while the debounce timer or a lookup is pending
\* ---------------------------------------------------------------------

\* The lookup pipeline (time observed at the debounce delay) and
\* disconnectedCallback.
NextTeardown ==
  \/ \E v \in InputValues : Input(v)
  \/ Tick(Delay)
  \/ TimerFire
  \/ DirectLookup
  \/ \E l \in Lookups, k \in 0..MaxResults, sh \in RecShapes : Receive(l, k, sh)
  \/ \E l \in Lookups : Fail(l)
  \/ \E l \in Lookups : AbortSettle(l)
  \/ \E l \in Lookups : Deliver(l)
  \/ Disconnect

SpecTeardown == Init /\ [][NextTeardown]_allVars

\* C32: after teardown no lookup starts (a pending debounce timer issues no
\* call), in-flight lookups are cancelled, and nothing is rendered.
NothingAfterTeardown ==
  [][ nDisc > 0 =>
        /\ nLookups' = nLookups
        /\ lastRender' = lastRender
  ]_allVars

\* ---------------------------------------------------------------------
\* Overlapping selections: a click on a second suggestion while the detail
\* fetch of the first is still pending (nothing in select() or the click
\* handler prevents it)
\* ---------------------------------------------------------------------
\* li click listener calling select(item), up to MaxOverlap selections
ClickItemOverlap(i) ==
  /\ visible
  /\ i \in DOMAIN sugg
  /\ UiEvent("item")
  /\ IF sugg[i].rec.adr THEN SelectBodyCap(sugg[i], MaxOverlap)
                        ELSE SelUnchanged /\ UNCHANGED visible
  /\ UNCHANGED <<hl, mapperKind, selErr>>
  /\ UNCHANGED pureVars
  /\ UNCHANGED initVars
  /\ UNCHANGED popVars
  /\ UNCHANGED posVars
  /\ UNCHANGED twoVars
  /\ UNCHANGED LookupVarsNoUi

NextOverlap ==
  \/ KeyArrowDown
  \/ KeyArrowUp
  \/ KeyEnter
  \/ KeyEscape
  \/ \E key \in Keys : KeyIgnored(key)
  \/ \E i \in 1..MaxResults : ClickItemOverlap(i)
  \/ \E i \in 1..MaxResults : DirectSelect(i, MaxOverlap)
  \/ \E t \in ClickTargets : ClickOn(t)
  \/ \E j \in 1..MaxOverlap, b \in {TekstVal, OtherBetegnelse} : SelFetchOk(j, b)
  \/ \E j \in 1..MaxOverlap : SelFetchFail(j)

SpecOverlap == InitSelect /\ [][NextOverlap]_allVars

\* C31: when selections overlap, the populated fields and the last emitted
\* event end up with the most recently started selection: an earlier
\* selection completing late never overwrites a newer one's fields or event.
LatestSelectionWins ==
  [][ /\ selLog' # selLog => selLog'.by >= selLog.by
      /\ nEvents' > nEvents => lastEvent'.by >= lastEvent.by ]_vars

====
